---- MODULE Spec2Model ----
(***************************************************************************)
(* Presence registry of govitest.go: the global ConferenceAPI (rooms ->     *)
(* users -> expiry), its two lock levels, and the three HTTP handlers       *)
(* checkInHandler, updatePresenceHandler and listRoomsHandler, each run by  *)
(* concurrently scheduled goroutines.  Time is in whole seconds.            *)
(***************************************************************************)
EXTENDS Integers, Sequences, FiniteSets, TLC

\* ---------------------------------------------------------------- bounds
NumProcs == 2          \* concurrent request goroutines
MaxTicks == 2          \* clock advances in one run
MaxExpiresIn == 1      \* largest expires_in a request carries
MaxRequests == 3       \* requests served in one run
MaxFairRequests == 2   \* requests served in one run under fair scheduling
MaxSnapshots == 2      \* listings in one run of listings only

\* ------------------------------------------------------------- constants
DefaultTTL == 300      \* 5 * time.Minute, in seconds

Procs == 1..NumProcs
UserIDs == {"alice", "bob"}
RoomIDs == {"r1", "r2"}
\* What a request body may carry in user_id / room_id: "" is the zero value
\* of a missing field.
ReqUserIDs == UserIDs \cup {""}
ReqRoomIDs == RoomIDs \cup {""}
\* expires_in on the wire: an int, or the field left out.
Absent == [present |-> FALSE, value |-> 0]
ReqExpiresIn == {[present |-> TRUE, value |-> v] : v \in -1..MaxExpiresIn} \cup {Absent}
\* Request bodies: one that json.Decoder rejects, and the JSON objects over
\* the ids above. A check-in body carries no expires_in the handler reads.
BadBody == [json |-> FALSE, UserID |-> "", RoomID |-> "", ExpiresIn |-> Absent]
CheckInBodies ==
    {BadBody} \cup
    {[json |-> TRUE, UserID |-> u, RoomID |-> r, ExpiresIn |-> Absent] :
        u \in ReqUserIDs, r \in ReqRoomIDs}
UpdateBodies ==
    {BadBody} \cup
    {[json |-> TRUE, UserID |-> u, RoomID |-> r, ExpiresIn |-> e] :
        u \in ReqUserIDs, r \in ReqRoomIDs, e \in ReqExpiresIn}
\* The clock moves by a second or by a whole default TTL between two steps.
TickSteps == {1, DefaultTTL}

NoProc == 0
NoRoom == 0

VARIABLES
    now,        \* time.Now()
    Rooms,      \* api.Rooms: room id -> *Room (an index of heap)
    heap,       \* the Room objects allocated so far
    RoomLock,   \* api.RoomLock
    pc,         \* each goroutine's position in its handler
    req,        \* each goroutine's decoded request
    local,      \* each goroutine's local variables
    resp,       \* what each goroutine has written to its ResponseWriter
    served      \* requests accepted so far

vars == <<now, Rooms, heap, RoomLock, pc, req, local, resp, served>>

\* ------------------------------------------------------------ data types
\* type User struct
User(id, expiresAt) == [ID |-> id, ExpiresAt |-> expiresAt]

\* &Room{Name: roomID, Users: make(map[string]User)}; UserLock is the
\* goroutine holding room.UserLock.Lock(), NoProc when free.
NewRoom(roomID) == [Name |-> roomID, Users |-> <<>>, UserLock |-> NoProc]

\* sync.RWMutex of the registry: w is the writer that has called Lock()
\* (from then on new RLock() calls wait), held whether it has got the lock
\* (all readers gone), readers the goroutines inside RLock()..RUnlock().
FreeRoomLock == [w |-> NoProc, held |-> FALSE, readers |-> {}]

NoReq == [op |-> "none", UserID |-> "", RoomID |-> "", ExpiresIn |-> 0]
NoUser == User("", 0)
NoLocal ==
    [expiresAt |-> 0, room |-> NoRoom, user |-> NoUser, roomID |-> "",
     roomsLeft |-> {}, usersLeft |-> {}, activeUsers |-> <<>>, roomsInfo |-> <<>>]
NoResp == [status |-> "none", body |-> <<>>]

\* m[k] = v of a Go map
MapPut(m, k, v) == [x \in (DOMAIN m) \cup {k} |-> IF x = k THEN v ELSE m[x]]
\* delete(m, k)
MapDelete(m, k) == [x \in (DOMAIN m) \ {k} |-> m[x]]

\* json.Decoder on expires_in: a missing field leaves the int at zero.
DecodeExpiresIn(wire) == IF wire.present THEN wire.value ELSE 0

\* ---------------------------------------------------------------- Init
Init ==
    /\ now = 0
    /\ Rooms = <<>>
    /\ heap = <<>>
    /\ RoomLock = FreeRoomLock
    /\ pc = [p \in Procs |-> "idle"]
    /\ req = [p \in Procs |-> NoReq]
    /\ local = [p \in Procs |-> NoLocal]
    /\ resp = [p \in Procs |-> NoResp]
    /\ served = 0

\* The least number of clock advances that lead from 0 to t.
Ticks(t) == (t \div DefaultTTL) + (t % DefaultTTL)

\* time passes
Tick ==
    /\ Ticks(now) < MaxTicks
    /\ \E d \in TickSteps : now' = now + d
    /\ UNCHANGED <<Rooms, heap, RoomLock, pc, req, local, resp, served>>

\* ------------------------------------------------------ RWMutex / Mutex
\* RoomLock.Lock(), first half: the writer announces itself.
\* (CanAnnounceAlways: writers that do not exclude each other.)
CanAnnounceAlways == TRUE
CanAnnounce == RoomLock.w = NoProc
\* (CanWriteAlways: a writer that does not wait for the readers.)
CanWriteAlways == TRUE
\* RoomLock.Lock(), second half: the readers have left.
CanWrite == RoomLock.readers = {}
\* RoomLock.RLock()
CanRLock == RoomLock.w = NoProc
\* (CanUserLockAlways: a user lock that excludes nobody.)
CanUserLockAlways(r) == TRUE

\* (CanUserLockGlobal: one user lock shared by all rooms.)
CanUserLockGlobal(r) == \A i \in 1..Len(heap) : heap[i].UserLock = NoProc

\* room.UserLock.Lock()
CanUserLock(r) == heap[r].UserLock = NoProc

\* ------------------------------------------------------ checkInHandler
\* line 55: the TTL of a check-in
CheckInTTL == DefaultTTL

\* lines 42-60: decode (400 when the body is not JSON), validate (400 when
\* an id is empty), expiresAt := time.Now().Add(5 * time.Minute)

CheckInDecode(p) ==
    /\ pc[p] = "idle"
    /\ served < MaxRequests
    /\ served' = served + 1
    /\ \E body \in CheckInBodies :
          /\ req' = [req EXCEPT ![p] =
                        [op |-> "checkin", UserID |-> body.UserID,
                         RoomID |-> body.RoomID, ExpiresIn |-> 0]]
          /\ IF ~body.json \/ body.UserID = "" \/ body.RoomID = ""
             THEN /\ pc' = [pc EXCEPT ![p] = "done"]
                  /\ resp' = [resp EXCEPT ![p] = [status |-> "InvalidRequest", body |-> <<>>]]
                  /\ local' = local
             ELSE /\ pc' = [pc EXCEPT ![p] = "ci_lock"]
                  /\ local' = [local EXCEPT ![p].expiresAt = now + CheckInTTL]
                  /\ resp' = resp
    /\ UNCHANGED <<now, Rooms, heap, RoomLock>>

\* line 62: api.RoomLock.Lock() is called
CheckInLock(p) ==
    /\ pc[p] = "ci_lock"
    /\ CanAnnounce
    /\ RoomLock' = [RoomLock EXCEPT !.w = p]
    /\ pc' = [pc EXCEPT ![p] = "ci_wait"]
    /\ UNCHANGED <<now, Rooms, heap, req, local, resp, served>>

\* line 62: api.RoomLock.Lock() returns
CheckInLocked(p) ==
    /\ pc[p] = "ci_wait"
    /\ CanWrite
    /\ RoomLock' = [RoomLock EXCEPT !.held = TRUE]
    /\ pc' = [pc EXCEPT ![p] = "ci_ensure"]
    /\ UNCHANGED <<now, Rooms, heap, req, local, resp, served>>

\* line 63: room, exists := api.Rooms[req.RoomID]
RoomExists(roomID) == roomID \in DOMAIN Rooms

\* lines 63-64, and 71 when the room exists: look the room up
CheckInLookup(p) ==
    /\ pc[p] = "ci_ensure"
    /\ IF RoomExists(req[p].RoomID)
       THEN /\ local' = [local EXCEPT ![p].room = Rooms[req[p].RoomID]]
            /\ RoomLock' = FreeRoomLock
            /\ pc' = [pc EXCEPT ![p] = "ci_ulock"]
       ELSE /\ local' = local
            /\ RoomLock' = RoomLock
            /\ pc' = [pc EXCEPT ![p] = "ci_create"]
    /\ UNCHANGED <<now, Rooms, heap, req, resp, served>>

\* (CheckInCreateKeepLock: the new room is stored but RoomLock stays locked.)
CheckInCreateKeepLock(p) ==
    /\ pc[p] = "ci_create"
    /\ heap' = Append(heap, NewRoom(req[p].RoomID))
    /\ Rooms' = MapPut(Rooms, req[p].RoomID, Len(heap) + 1)
    /\ local' = [local EXCEPT ![p].room = Len(heap) + 1]
    /\ pc' = [pc EXCEPT ![p] = "ci_ulock"]
    /\ UNCHANGED <<now, RoomLock, req, resp, served>>

\* lines 65-71: room = &Room{...}; api.Rooms[req.RoomID] = room; unlock
CheckInCreate(p) ==
    /\ pc[p] = "ci_create"
    /\ heap' = Append(heap, NewRoom(req[p].RoomID))
    /\ Rooms' = MapPut(Rooms, req[p].RoomID, Len(heap) + 1)
    /\ local' = [local EXCEPT ![p].room = Len(heap) + 1]
    /\ RoomLock' = FreeRoomLock
    /\ pc' = [pc EXCEPT ![p] = "ci_ulock"]
    /\ UNCHANGED <<now, req, resp, served>>

\* line 73: room.UserLock.Lock()
CheckInUserLock(p) ==
    /\ pc[p] = "ci_ulock"
    /\ CanUserLock(local[p].room)
    /\ heap' = [heap EXCEPT ![local[p].room].UserLock = p]
    /\ pc' = [pc EXCEPT ![p] = "ci_write"]
    /\ UNCHANGED <<now, Rooms, RoomLock, req, local, resp, served>>

\* (CheckInStoreReset: a check-in that starts the room's map afresh.)
CheckInStoreReset(users, id, expiresAt) == MapPut(<<>>, id, User(id, expiresAt))

\* (CheckInStoreSweep: a check-in that also drops the room's expired
\* entries.)
CheckInStoreSweep(users, id, expiresAt) ==
    LET kept == {x \in DOMAIN users : users[x].ExpiresAt > now}
    IN  MapPut([x \in kept |-> users[x]], id, User(id, expiresAt))

\* line 74: room.Users[req.UserID] = user
CheckInStore(users, id, expiresAt) == MapPut(users, id, User(id, expiresAt))

\* lines 74-77: store the entry, unlock, answer
CheckInWrite(p) ==
    /\ pc[p] = "ci_write"
    /\ heap' = [heap EXCEPT ![local[p].room] =
                   [@ EXCEPT !.Users = CheckInStore(@, req[p].UserID, local[p].expiresAt),
                             !.UserLock = NoProc]]
    /\ resp' = [resp EXCEPT ![p] = [status |-> "OK", body |-> <<>>]]
    /\ pc' = [pc EXCEPT ![p] = "done"]
    /\ UNCHANGED <<now, Rooms, RoomLock, req, local, served>>

\* ------------------------------------------------ updatePresenceHandler
\* (UpdateTTLNonNegative: expires_in is honoured from zero up.)
UpdateTTLNonNegative(expiresIn) == IF expiresIn >= 0 THEN expiresIn ELSE DefaultTTL

\* lines 101-104: the TTL a refresh gets from the decoded expires_in.
UpdateTTL(expiresIn) == IF expiresIn > 0 THEN expiresIn ELSE DefaultTTL

\* lines 88-104: decode (400 when the body is not JSON), validate (400 when
\* an id is empty), expiresAt := time.Now().Add(ttl). The clock is read at
\* line 101 and, for a positive expires_in, again at line 103; only the last
\* reading reaches expiresAt, so the step is placed at that reading.
UpdateDecode(p) ==
    /\ pc[p] = "idle"
    /\ served < MaxRequests
    /\ served' = served + 1
    /\ \E body \in UpdateBodies :
          /\ req' = [req EXCEPT ![p] =
                        [op |-> "update", UserID |-> body.UserID,
                         RoomID |-> body.RoomID,
                         ExpiresIn |-> DecodeExpiresIn(body.ExpiresIn)]]
          /\ IF ~body.json \/ body.UserID = "" \/ body.RoomID = ""
             THEN /\ pc' = [pc EXCEPT ![p] = "done"]
                  /\ resp' = [resp EXCEPT ![p] = [status |-> "InvalidRequest", body |-> <<>>]]
                  /\ local' = local
             ELSE /\ pc' = [pc EXCEPT ![p] = "up_rlock"]
                  /\ local' = [local EXCEPT ![p].expiresAt =
                                  now + UpdateTTL(DecodeExpiresIn(body.ExpiresIn))]
                  /\ resp' = resp
    /\ UNCHANGED <<now, Rooms, heap, RoomLock>>

\* line 106: api.RoomLock.RLock()
UpdateRLock(p) ==
    /\ pc[p] = "up_rlock"
    /\ CanRLock
    /\ RoomLock' = [RoomLock EXCEPT !.readers = @ \cup {p}]
    /\ pc' = [pc EXCEPT ![p] = "up_find"]
    /\ UNCHANGED <<now, Rooms, heap, req, local, resp, served>>

\* (UpdateFindRoomOrCreate: a refresh that creates the missing room, as a
\* check-in does.)
UpdateFindRoomOrCreate(p) ==
    /\ pc[p] = "up_find"
    /\ RoomLock' = [RoomLock EXCEPT !.readers = @ \ {p}]
    /\ IF req[p].RoomID \in DOMAIN Rooms
       THEN /\ local' = [local EXCEPT ![p].room = Rooms[req[p].RoomID]]
            /\ UNCHANGED <<Rooms, heap>>
       ELSE /\ heap' = Append(heap, NewRoom(req[p].RoomID))
            /\ Rooms' = MapPut(Rooms, req[p].RoomID, Len(heap) + 1)
            /\ local' = [local EXCEPT ![p].room = Len(heap) + 1]
    /\ pc' = [pc EXCEPT ![p] = "up_ulock"]
    /\ UNCHANGED <<now, req, resp, served>>

\* lines 107-112: look the room up, RUnlock, 404 when it is missing
UpdateFindRoom(p) ==
    /\ pc[p] = "up_find"
    /\ RoomLock' = [RoomLock EXCEPT !.readers = @ \ {p}]
    /\ IF RoomExists(req[p].RoomID)
       THEN /\ local' = [local EXCEPT ![p].room = Rooms[req[p].RoomID]]
            /\ pc' = [pc EXCEPT ![p] = "up_ulock"]
            /\ resp' = resp
       ELSE /\ local' = local
            /\ pc' = [pc EXCEPT ![p] = "done"]
            /\ resp' = [resp EXCEPT ![p] = [status |-> "RoomNotFound", body |-> <<>>]]
    /\ UNCHANGED <<now, Rooms, heap, req, served>>

\* line 114: room.UserLock.Lock()
UpdateUserLock(p) ==
    /\ pc[p] = "up_ulock"
    /\ CanUserLock(local[p].room)
    /\ heap' = [heap EXCEPT ![local[p].room].UserLock = p]
    /\ pc' = [pc EXCEPT ![p] = "up_lookup"]
    /\ UNCHANGED <<now, Rooms, RoomLock, req, local, resp, served>>

\* line 115: user, exists := room.Users[req.UserID]
UserExists(users, id) == id \in DOMAIN users

\* (UpdateLookupNoCheck: exists is ignored; a missing user yields the zero
\* User.)
UpdateLookupNoCheck(p) ==
    /\ pc[p] = "up_lookup"
    /\ local' = [local EXCEPT ![p].user =
                    IF req[p].UserID \in DOMAIN heap[local[p].room].Users
                    THEN heap[local[p].room].Users[req[p].UserID]
                    ELSE User("", 0)]
    /\ pc' = [pc EXCEPT ![p] = "up_store"]
    /\ UNCHANGED <<now, Rooms, heap, RoomLock, req, resp, served>>

\* (UpdateLookupChecksExpiry: an expired entry counts as missing.)
UpdateLookupChecksExpiry(p) ==
    /\ pc[p] = "up_lookup"
    /\ IF /\ req[p].UserID \in DOMAIN heap[local[p].room].Users
          /\ heap[local[p].room].Users[req[p].UserID].ExpiresAt > now
       THEN /\ local' = [local EXCEPT ![p].user = heap[local[p].room].Users[req[p].UserID]]
            /\ pc' = [pc EXCEPT ![p] = "up_store"]
            /\ UNCHANGED <<heap, resp>>
       ELSE /\ heap' = [heap EXCEPT ![local[p].room].UserLock = 0]
            /\ resp' = [resp EXCEPT ![p] = [status |-> "UserNotFound", body |-> <<>>]]
            /\ pc' = [pc EXCEPT ![p] = "done"]
            /\ local' = local
    /\ UNCHANGED <<now, Rooms, RoomLock, req, served>>

\* (UpdateLookupUnlocks: the lock is given up after the lookup, before the
\* store.)
UpdateLookupUnlocks(p) ==
    /\ pc[p] = "up_lookup"
    /\ heap' = [heap EXCEPT ![local[p].room].UserLock = NoProc]
    /\ IF UserExists(heap[local[p].room].Users, req[p].UserID)
       THEN /\ local' = [local EXCEPT ![p].user = heap[local[p].room].Users[req[p].UserID]]
            /\ pc' = [pc EXCEPT ![p] = "up_store"]
            /\ UNCHANGED resp
       ELSE /\ resp' = [resp EXCEPT ![p] = [status |-> "UserNotFound", body |-> <<>>]]
            /\ pc' = [pc EXCEPT ![p] = "done"]
            /\ local' = local
    /\ UNCHANGED <<now, Rooms, RoomLock, req, served>>

\* (UpdateLookupNoUnlock: the early return leaves room.UserLock locked.)
UpdateLookupNoUnlock(p) ==
    /\ pc[p] = "up_lookup"
    /\ IF UserExists(heap[local[p].room].Users, req[p].UserID)
       THEN /\ local' = [local EXCEPT ![p].user = heap[local[p].room].Users[req[p].UserID]]
            /\ pc' = [pc EXCEPT ![p] = "up_store"]
            /\ UNCHANGED resp
       ELSE /\ resp' = [resp EXCEPT ![p] = [status |-> "UserNotFound", body |-> <<>>]]
            /\ pc' = [pc EXCEPT ![p] = "done"]
            /\ local' = local
    /\ UNCHANGED <<now, Rooms, heap, RoomLock, req, served>>

\* lines 115-120: look the user up; 404 and unlock when there is no entry
UpdateLookup(p) ==
    /\ pc[p] = "up_lookup"
    /\ IF UserExists(heap[local[p].room].Users, req[p].UserID)
       THEN /\ local' = [local EXCEPT ![p].user = heap[local[p].room].Users[req[p].UserID]]
            /\ pc' = [pc EXCEPT ![p] = "up_store"]
            /\ UNCHANGED <<heap, resp>>
       ELSE /\ heap' = [heap EXCEPT ![local[p].room].UserLock = NoProc]
            /\ resp' = [resp EXCEPT ![p] = [status |-> "UserNotFound", body |-> <<>>]]
            /\ pc' = [pc EXCEPT ![p] = "done"]
            /\ local' = local
    /\ UNCHANGED <<now, Rooms, RoomLock, req, served>>

\* (UpdateStoreMax: a refresh that only ever extends the stored expiry.)
UpdateStoreExtend(users, id, user, expiresAt) ==
    MapPut(users, id, [user EXCEPT !.ExpiresAt = @ + (expiresAt - now)])

UpdateStoreMax(users, id, user, expiresAt) ==
    MapPut(users, id,
           [user EXCEPT !.ExpiresAt = IF @ > expiresAt THEN @ ELSE expiresAt])

\* lines 122-123: user.ExpiresAt = expiresAt; room.Users[req.UserID] = user
UpdateStore(users, id, user, expiresAt) ==
    MapPut(users, id, [user EXCEPT !.ExpiresAt = expiresAt])

\* lines 122-126: overwrite the expiry of the copy, store it, unlock, answer
UpdateWrite(p) ==
    /\ pc[p] = "up_store"
    /\ heap' = [heap EXCEPT ![local[p].room] =
                   [@ EXCEPT !.Users = UpdateStore(@, req[p].UserID, local[p].user,
                                                   local[p].expiresAt),
                             !.UserLock = NoProc]]
    /\ local' = [local EXCEPT ![p].user.ExpiresAt = local[p].expiresAt]
    /\ resp' = [resp EXCEPT ![p] = [status |-> "OK", body |-> <<>>]]
    /\ pc' = [pc EXCEPT ![p] = "done"]
    /\ UNCHANGED <<now, Rooms, RoomLock, req, served>>

\* ----------------------------------------------------- listRoomsHandler
\* RoomInfo{RoomID: roomID, UserIDs: activeUsers}
RoomInfo(roomID, activeUsers) == [RoomID |-> roomID, UserIDs |-> activeUsers]

\* lines 130-136: the handler starts (the body is not read);
\* var roomsInfo []RoomInfo
ListBegin(p) ==
    /\ pc[p] = "idle"
    /\ served < MaxRequests
    /\ served' = served + 1
    /\ req' = [req EXCEPT ![p] = [NoReq EXCEPT !.op = "list"]]
    /\ pc' = [pc EXCEPT ![p] = "ls_rlock"]
    /\ UNCHANGED <<now, Rooms, heap, RoomLock, local, resp>>

\* lines 138-139: api.RoomLock.RLock(); the range over api.Rooms starts
ListRLock(p) ==
    /\ pc[p] = "ls_rlock"
    /\ CanRLock
    /\ RoomLock' = [RoomLock EXCEPT !.readers = @ \cup {p}]
    /\ local' = [local EXCEPT ![p].roomsLeft = DOMAIN Rooms]
    /\ pc' = [pc EXCEPT ![p] = "ls_range"]
    /\ UNCHANGED <<now, Rooms, heap, req, resp, served>>

\* line 139: the range yields the next room, in no particular order
ListRangeNext(p) ==
    /\ pc[p] = "ls_range"
    /\ \E roomID \in local[p].roomsLeft :
          local' = [local EXCEPT ![p].roomID = roomID,
                                 ![p].room = Rooms[roomID],
                                 ![p].roomsLeft = @ \ {roomID}]
    /\ pc' = [pc EXCEPT ![p] = "ls_ulock"]
    /\ UNCHANGED <<now, Rooms, heap, RoomLock, req, resp, served>>

\* lines 140-142: room.UserLock.Lock(); var activeUsers []string; the range
\* over room.Users starts
ListUserLock(p) ==
    /\ pc[p] = "ls_ulock"
    /\ CanUserLock(local[p].room)
    /\ heap' = [heap EXCEPT ![local[p].room].UserLock = p]
    /\ local' = [local EXCEPT ![p].usersLeft = DOMAIN heap[local[p].room].Users,
                              ![p].activeUsers = <<>>]
    /\ pc' = [pc EXCEPT ![p] = "ls_scan"]
    /\ UNCHANGED <<now, Rooms, RoomLock, req, resp, served>>

\* (IsActiveNotBefore: !Before in place of After.)
IsActiveNotBefore(user, t) == user.ExpiresAt >= t

\* line 143: user.ExpiresAt.After(time.Now())
IsActive(user, t) == user.ExpiresAt > t

\* (ListScanUserKeepExpired: an expired entry is passed over, not deleted.)
ListScanUserKeepExpired(p) ==
    /\ pc[p] = "ls_scan"
    /\ \E userID \in local[p].usersLeft :
          local' = [local EXCEPT
                       ![p].activeUsers =
                           IF IsActive(heap[local[p].room].Users[userID], now)
                           THEN Append(@, userID) ELSE @,
                       ![p].usersLeft = @ \ {userID}]
    /\ UNCHANGED <<now, Rooms, heap, RoomLock, pc, req, resp, served>>

\* (ListScanUserReportEvicted: an expired entry is deleted and reported.)
ListScanUserReportEvicted(p) ==
    /\ pc[p] = "ls_scan"
    /\ \E userID \in local[p].usersLeft :
          /\ local' = [local EXCEPT ![p].activeUsers = Append(@, userID),
                                    ![p].usersLeft = @ \ {userID}]
          /\ heap' = IF IsActive(heap[local[p].room].Users[userID], now)
                     THEN heap
                     ELSE [heap EXCEPT ![local[p].room].Users = MapDelete(@, userID)]
    /\ UNCHANGED <<now, Rooms, RoomLock, pc, req, resp, served>>

\* lines 142-148: one entry of the range over room.Users, in no particular
\* order: keep and report it, or delete it
ListScanUser(p) ==
    /\ pc[p] = "ls_scan"
    /\ \E userID \in local[p].usersLeft :
          IF IsActive(heap[local[p].room].Users[userID], now)
          THEN /\ local' = [local EXCEPT ![p].activeUsers = Append(@, userID),
                                         ![p].usersLeft = @ \ {userID}]
               /\ heap' = heap
          ELSE /\ local' = [local EXCEPT ![p].usersLeft = @ \ {userID}]
               /\ heap' = [heap EXCEPT ![local[p].room].Users = MapDelete(@, userID)]
    /\ UNCHANGED <<now, Rooms, RoomLock, pc, req, resp, served>>

\* (ListRoomDonePrune: a room left without users is dropped from the
\* registry.)
ListRoomDonePrune(p) ==
    /\ pc[p] = "ls_scan"
    /\ local[p].usersLeft = {}
    /\ heap' = [heap EXCEPT ![local[p].room].UserLock = 0]
    /\ Rooms' = IF local[p].activeUsers = <<>>
                THEN [r \in (DOMAIN Rooms) \ {local[p].roomID} |-> Rooms[r]]
                ELSE Rooms
    /\ local' = [local EXCEPT ![p].roomsInfo =
                    Append(@, [RoomID |-> local[p].roomID, UserIDs |-> local[p].activeUsers]),
                              ![p].activeUsers = <<>>,
                              ![p].roomID = "",
                              ![p].room = 0]
    /\ pc' = [pc EXCEPT ![p] = "ls_range"]
    /\ UNCHANGED <<now, RoomLock, req, resp, served>>

\* (ListRoomDoneSkipEmpty: a room without active users is left out of the
\* answer.)
ListRoomDoneSkipEmpty(p) ==
    /\ pc[p] = "ls_scan"
    /\ local[p].usersLeft = {}
    /\ heap' = [heap EXCEPT ![local[p].room].UserLock = 0]
    /\ local' = [local EXCEPT ![p].roomsInfo =
                    IF local[p].activeUsers = <<>>
                    THEN @
                    ELSE Append(@, [RoomID |-> local[p].roomID,
                                    UserIDs |-> local[p].activeUsers]),
                              ![p].activeUsers = <<>>,
                              ![p].roomID = "",
                              ![p].room = 0]
    /\ pc' = [pc EXCEPT ![p] = "ls_range"]
    /\ UNCHANGED <<now, Rooms, RoomLock, req, resp, served>>

\* lines 149-154: the range over room.Users is over: unlock, append the
\* room's RoomInfo
ListRoomDone(p) ==
    /\ pc[p] = "ls_scan"
    /\ local[p].usersLeft = {}
    /\ heap' = [heap EXCEPT ![local[p].room].UserLock = NoProc]
    /\ local' = [local EXCEPT ![p].roomsInfo =
                    Append(@, RoomInfo(local[p].roomID, local[p].activeUsers)),
                              ![p].activeUsers = <<>>,
                              ![p].roomID = "",
                              ![p].room = NoRoom]
    /\ pc' = [pc EXCEPT ![p] = "ls_range"]
    /\ UNCHANGED <<now, Rooms, RoomLock, req, resp, served>>

\* lines 156-159: the range over api.Rooms is over: RUnlock, encode roomsInfo
ListDone(p) ==
    /\ pc[p] = "ls_range"
    /\ local[p].roomsLeft = {}
    /\ RoomLock' = [RoomLock EXCEPT !.readers = @ \ {p}]
    /\ resp' = [resp EXCEPT ![p] = [status |-> "OK", body |-> local[p].roomsInfo]]
    /\ pc' = [pc EXCEPT ![p] = "done"]
    /\ UNCHANGED <<now, Rooms, heap, req, local, served>>

\* the handler returns; the goroutine's locals are gone
Return(p) ==
    /\ pc[p] = "done"
    /\ pc' = [pc EXCEPT ![p] = "idle"]
    /\ req' = [req EXCEPT ![p] = NoReq]
    /\ local' = [local EXCEPT ![p] = NoLocal]
    /\ resp' = [resp EXCEPT ![p] = NoResp]
    /\ UNCHANGED <<now, Rooms, heap, RoomLock, served>>

Next ==
    \/ Tick
    \/ \E p \in Procs :
          \/ CheckInDecode(p)
          \/ CheckInLock(p)
          \/ CheckInLocked(p)
          \/ CheckInLookup(p)
          \/ CheckInCreate(p)
          \/ CheckInUserLock(p)
          \/ CheckInWrite(p)
          \/ UpdateDecode(p)
          \/ UpdateRLock(p)
          \/ UpdateFindRoom(p)
          \/ UpdateUserLock(p)
          \/ UpdateLookup(p)
          \/ UpdateWrite(p)
          \/ ListBegin(p)
          \/ ListRLock(p)
          \/ ListRangeNext(p)
          \/ ListUserLock(p)
          \/ ListScanUser(p)
          \/ ListRoomDone(p)
          \/ ListDone(p)
          \/ Return(p)

Spec == Init /\ [][Next]_vars

\* The steps of a call that p's handler has already begun: every step but
\* the arrival of a request.
Proceed(p) ==
    \/ CheckInLock(p)
    \/ CheckInLocked(p)
    \/ CheckInLookup(p)
    \/ CheckInCreate(p)
    \/ CheckInUserLock(p)
    \/ CheckInWrite(p)
    \/ UpdateRLock(p)
    \/ UpdateFindRoom(p)
    \/ UpdateUserLock(p)
    \/ UpdateLookup(p)
    \/ UpdateWrite(p)
    \/ ListRLock(p)
    \/ ListRangeNext(p)
    \/ ListUserLock(p)
    \/ ListScanUser(p)
    \/ ListRoomDone(p)
    \/ ListDone(p)
    \/ Return(p)

\* The steps in which p acquires a lock it may have to wait for.
Acquire(p) ==
    \/ CheckInLock(p)
    \/ CheckInLocked(p)
    \/ CheckInUserLock(p)
    \/ UpdateRLock(p)
    \/ UpdateUserLock(p)
    \/ ListRLock(p)
    \/ ListUserLock(p)

\* The values the clock of a run can show.
ClockValues == {t \in 0..(MaxTicks * DefaultTTL) : Ticks(t) <= MaxTicks}

\* Expiries just before, at and just after the clock value t.
ExpiriesAround(t) == {e \in {t - 1, t, t + 1} : e > 0}

\* The user maps a room can hold at clock value t: any of the users, each
\* with an expiry around t.
UserMaps(t) ==
    UNION {{[u \in S |-> User(u, f[u])] : f \in [S -> ExpiriesAround(t)]} :
              S \in SUBSET UserIDs}

\* The orders in which the rooms of a registry can have been created.
RoomOrders ==
    {names \in UNION {[1..n -> RoomIDs] : n \in 1..Cardinality(RoomIDs)} :
        \A i, j \in DOMAIN names : names[i] = names[j] => i = j}

\* A registry at rest, as earlier check-ins and refreshes have left it: some
\* rooms, each with some users, no call in flight.
SnapshotInit ==
    /\ now \in ClockValues
    /\ \E names \in RoomOrders :
          \E maps \in [DOMAIN names -> UserMaps(now)] :
             /\ heap = [i \in DOMAIN names |->
                           [Name |-> names[i], Users |-> maps[i], UserLock |-> NoProc]]
             /\ Rooms = [r \in {names[i] : i \in DOMAIN names} |->
                            CHOOSE i \in DOMAIN names : names[i] = r]
    /\ RoomLock = FreeRoomLock
    /\ pc = [p \in Procs |-> "idle"]
    /\ req = [p \in Procs |-> NoReq]
    /\ local = [p \in Procs |-> NoLocal]
    /\ resp = [p \in Procs |-> NoResp]
    /\ served = 0

\* Listings only, at most MaxSnapshots of them, while the clock stands
\* still and no check-in or refresh arrives.
SnapshotNext ==
    \E p \in Procs :
       \/ served < MaxSnapshots /\ ListBegin(p)
       \/ ListRLock(p)
       \/ ListRangeNext(p)
       \/ ListUserLock(p)
       \/ ListScanUser(p)
       \/ ListRoomDone(p)
       \/ ListDone(p)
       \/ Return(p)

SnapshotSpec == SnapshotInit /\ [][SnapshotNext]_vars

\* The program serving at most MaxFairRequests requests.
FairNext ==
    \/ Tick
    \/ \E p \in Procs :
          \/ served < MaxFairRequests /\ CheckInDecode(p)
          \/ served < MaxFairRequests /\ UpdateDecode(p)
          \/ served < MaxFairRequests /\ ListBegin(p)
          \/ Proceed(p)

\* The Go scheduler runs every goroutine that can run, and sync.Mutex and
\* sync.RWMutex hand a lock to a goroutine that keeps waiting for it
\* (starvation mode; a pending writer holds off new readers). Requests
\* arrive, and the clock moves, without any such promise.
FairSpec ==
    /\ Init /\ [][FairNext]_vars
    /\ \A p \in Procs : WF_vars(Proceed(p))
    /\ \A p \in Procs : SF_vars(Acquire(p))

\* ======================================================== properties
\* The Room objects on the heap that carry a room id.
RoomObjects(roomID) == {i \in 1..Len(heap) : heap[i].Name = roomID}
\* Goroutine p is past EnsureRoom of a valid check-in.
HoldsCheckInRoom(p) ==
    /\ req[p].op = "checkin"
    /\ pc[p] \in {"ci_ulock", "ci_write"} \/ (pc[p] = "done" /\ resp[p].status = "OK")
\* The step in which p stores its entry (check-in, or a refresh that found
\* the user).
WriteStep(p) == pc[p] \in {"ci_write", "up_store"} /\ pc'[p] = "done"
\* The step in which p's eviction pass handles user u.
ScanStep(p, u) ==
    /\ pc[p] = "ls_scan"
    /\ u \in local[p].usersLeft
    /\ u \notin local'[p].usersLeft

\* C1: at most one Room object exists per room id; the registry maps each
\* room id to the Room of that name, and every check-in that is past
\* EnsureRoom holds (and so writes into) the registered Room of its room id.
C1_OneRoomPerId ==
    /\ \A r \in RoomIDs : Cardinality(RoomObjects(r)) <= 1
    /\ \A r \in DOMAIN Rooms : Rooms[r] \in RoomObjects(r)
    /\ \A p \in Procs :
          HoldsCheckInRoom(p) =>
             /\ req[p].RoomID \in DOMAIN Rooms
             /\ local[p].room = Rooms[req[p].RoomID]

\* Two check-ins, the only requests so far, name the same room id and both
\* have come out of EnsureRoom with the same Room.
C1_Witness ==
    \E p, q \in Procs :
       /\ p # q
       /\ served = 2
       /\ HoldsCheckInRoom(p) /\ HoldsCheckInRoom(q)
       /\ pc[p] = "ci_ulock" /\ pc[q] = "ci_ulock"
       /\ req[p].RoomID = req[q].RoomID
       /\ local[p].room = local[q].room
       /\ Cardinality(RoomObjects(req[p].RoomID)) = 1

\* C2: last write wins: a check-in or a successful refresh leaves for its
\* user exactly the entry it computed, whatever was stored before, and an
\* entry changes its value only in such a step of a call for that user in
\* that room.
C2_LastWriteWins ==
    [][/\ \A p \in Procs :
             WriteStep(p) =>
                /\ req[p].UserID \in DOMAIN heap'[local[p].room].Users
                /\ heap'[local[p].room].Users[req[p].UserID]
                      = User(req[p].UserID, local[p].expiresAt)
       /\ \A i \in 1..Len(heap) :
             \A u \in (DOMAIN heap[i].Users) \cap (DOMAIN heap'[i].Users) :
                heap'[i].Users[u] # heap[i].Users[u] =>
                   \E p \in Procs :
                      WriteStep(p) /\ local[p].room = i /\ req[p].UserID = u
      ]_vars

\* A refresh with a TTL below the default has answered OK after the only
\* other request, a check-in, and the entry carries the refresh's expiry,
\* which is earlier than any expiry a check-in sets.
C2_Witness ==
    \E p, q \in Procs :
       /\ p # q
       /\ served = 2
       /\ req[q].op = "checkin" /\ pc[q] = "done" /\ resp[q].status = "OK"
       /\ req[p].op = "update" /\ pc[p] = "done" /\ resp[p].status = "OK"
       /\ req[p].UserID = req[q].UserID /\ local[p].room = local[q].room
       /\ local[p].expiresAt < local[q].expiresAt
       /\ heap[local[p].room].Users[req[p].UserID].ExpiresAt = local[p].expiresAt

\* C3: the eviction pass deletes and does not report an entry whose
\* ExpiresAt is at or before the clock, and reports and keeps unchanged an
\* entry whose ExpiresAt is after it.
C3_EvictAtOrBeforeNow ==
    [][\A p \in Procs : \A u \in UserIDs :
          ScanStep(p, u) =>
             LET i == local[p].room
                 e == heap[i].Users[u]
             IN  IF e.ExpiresAt <= now
                 THEN /\ u \notin DOMAIN heap'[i].Users
                      /\ local'[p].activeUsers = local[p].activeUsers
                 ELSE /\ u \in DOMAIN heap'[i].Users
                      /\ heap'[i].Users[u] = e
                      /\ local'[p].activeUsers = Append(local[p].activeUsers, u)
      ]_vars

\* The boundary: the only other request was a check-in at time 0, so its
\* entry expires at DefaultTTL; the clock reads exactly DefaultTTL and the
\* pass over that room has ended with the entry deleted and nothing reported.
C3_Witness ==
    \E p, q \in Procs :
       /\ p # q
       /\ served = 2
       /\ now = DefaultTTL
       /\ req[q].op = "checkin" /\ pc[q] = "done" /\ resp[q].status = "OK"
       /\ local[q].expiresAt = DefaultTTL
       /\ pc[p] = "ls_scan" /\ local[p].room = local[q].room
       /\ local[p].usersLeft = {} /\ local[p].activeUsers = <<>>
       /\ heap[local[p].room].Users = <<>>

\* C4: a refresh whose room id is not in the registry answers RoomNotFound
\* and ends there; it, and every other step of a refresh, leaves the room
\* map and the set of Room objects as they were, and the failed refresh
\* changes no user entry.
C4_RefreshUnknownRoom ==
    [][\A p \in Procs :
          /\ (/\ pc[p] = "up_find"
              /\ pc'[p] # "up_find"
              /\ req[p].RoomID \notin DOMAIN Rooms)
                => /\ pc'[p] = "done"
                   /\ resp'[p].status = "RoomNotFound"
                   /\ heap' = heap
          /\ (req[p].op = "update" /\ pc'[p] # pc[p])
                => /\ Rooms' = Rooms
                   /\ Len(heap') = Len(heap)
          /\ (resp[p].status = "RoomNotFound" /\ pc'[p] # pc[p])
                => /\ pc'[p] = "idle"
                   /\ heap' = heap
      ]_vars

\* A refresh has answered RoomNotFound for a room id that is still not in
\* the registry, while another room is.
C4_Witness ==
    \E p \in Procs :
       /\ pc[p] = "done"
       /\ req[p].op = "update"
       /\ resp[p].status = "RoomNotFound"
       /\ req[p].RoomID \notin DOMAIN Rooms
       /\ DOMAIN Rooms # {}

\* C5: a refresh that finds no entry for its user in an existing room
\* answers UserNotFound, and that step changes no room's user map, no room
\* and no registry entry.
C5_RefreshUnknownUser ==
    [][\A p \in Procs :
          (/\ pc[p] = "up_lookup"
           /\ pc'[p] # "up_lookup"
           /\ req[p].UserID \notin DOMAIN heap[local[p].room].Users)
             => /\ pc'[p] = "done"
                /\ resp'[p].status = "UserNotFound"
                /\ Rooms' = Rooms
                /\ Len(heap') = Len(heap)
                /\ \A i \in 1..Len(heap) : heap'[i].Users = heap[i].Users
      ]_vars

\* A refresh has answered UserNotFound in a room that holds another user's
\* entry and none for the refreshed user.
C5_Witness ==
    \E p \in Procs :
       /\ pc[p] = "done"
       /\ req[p].op = "update"
       /\ resp[p].status = "UserNotFound"
       /\ req[p].RoomID \in DOMAIN Rooms
       /\ local[p].room = Rooms[req[p].RoomID]
       /\ req[p].UserID \notin DOMAIN heap[local[p].room].Users
       /\ DOMAIN heap[local[p].room].Users # {}

\* C6: no step removes a room id from the registry, maps it to another Room
\* object, drops a Room object or renames one.
C6_RoomsNeverDeleted ==
    [][/\ \A r \in DOMAIN Rooms : r \in DOMAIN Rooms' /\ Rooms'[r] = Rooms[r]
       /\ Len(heap') >= Len(heap)
       /\ \A i \in 1..Len(heap) : heap'[i].Name = heap[i].Name
      ]_vars

\* A room whose only entry, written by a finished check-in, has been
\* evicted: a Snapshot has reported it empty, its user map is empty and it
\* is still registered.
C6_Witness ==
    \E p, q \in Procs :
       /\ p # q
       /\ served = 2
       /\ req[q].op = "checkin" /\ pc[q] = "done" /\ resp[q].status = "OK"
       /\ req[p].op = "list" /\ pc[p] = "done"
       /\ resp[p].body = <<[RoomID |-> req[q].RoomID, UserIDs |-> <<>>]>>
       /\ req[q].RoomID \in DOMAIN Rooms
       /\ Rooms[req[q].RoomID] = local[q].room
       /\ heap[local[q].room].Users = <<>>

\* C7: the answer of a Snapshot names every room of the registry exactly
\* once, and the pass over a room adds that room's RoomInfo to the answer
\* whatever its list of active users is, the empty list included.
C7_SnapshotListsEveryRoom ==
    [][\A p \in Procs :
          /\ (pc[p] = "ls_range" /\ pc'[p] = "done")
                => LET body == resp'[p].body
                   IN  /\ {body[k].RoomID : k \in 1..Len(body)} = DOMAIN Rooms
                       /\ Len(body) = Cardinality(DOMAIN Rooms)
          /\ (pc[p] = "ls_scan" /\ pc'[p] = "ls_range")
                => local'[p].roomsInfo =
                      Append(local[p].roomsInfo,
                             [RoomID |-> local[p].roomID,
                              UserIDs |-> local[p].activeUsers])
      ]_vars

\* A Snapshot has answered with both rooms, one of them with an empty list
\* and the other with a user.
C7_Witness ==
    \E p \in Procs :
       /\ pc[p] = "done"
       /\ req[p].op = "list"
       /\ Len(resp[p].body) = 2
       /\ DOMAIN Rooms = RoomIDs
       /\ \E k, m \in 1..2 :
             /\ resp[p].body[k].UserIDs = <<>>
             /\ resp[p].body[m].UserIDs # <<>>
             /\ resp[p].body[k].RoomID # resp[p].body[m].RoomID

\* C8: a refresh that finds an entry for its user goes on to store, whether
\* or not the entry's ExpiresAt has passed; the store answers OK and leaves
\* the refresh's expiresAt in the entry; and an eviction pass that meets an
\* entry whose ExpiresAt is after the clock reports its user.
C8_RefreshIgnoresExpiry ==
    [][\A p \in Procs :
          /\ (/\ pc[p] = "up_lookup"
              /\ pc'[p] # "up_lookup"
              /\ req[p].UserID \in DOMAIN heap[local[p].room].Users)
                => /\ pc'[p] = "up_store"
                   /\ heap' = heap
          /\ (pc[p] = "up_store" /\ pc'[p] # "up_store")
                => /\ pc'[p] = "done"
                   /\ resp'[p].status = "OK"
                   /\ req[p].UserID \in DOMAIN heap'[local[p].room].Users
                   /\ heap'[local[p].room].Users[req[p].UserID].ExpiresAt
                         = local[p].expiresAt
          /\ \A u \in UserIDs :
                (ScanStep(p, u) /\ heap[local[p].room].Users[u].ExpiresAt > now)
                   => /\ local'[p].activeUsers = Append(local[p].activeUsers, u)
                      /\ heap' = heap
      ]_vars

\* The only other request was a check-in at time 0, whose entry expired at
\* DefaultTTL; a refresh decoded at DefaultTTL with expires_in 1 has answered
\* OK and the entry now expires at DefaultTTL + 1.
C8_Witness ==
    \E p, q \in Procs :
       /\ p # q
       /\ served = 2
       /\ req[q].op = "checkin" /\ pc[q] = "done" /\ resp[q].status = "OK"
       /\ local[q].expiresAt = DefaultTTL
       /\ req[p].op = "update" /\ pc[p] = "done" /\ resp[p].status = "OK"
       /\ req[p].ExpiresIn = 1
       /\ local[p].expiresAt = DefaultTTL + 1
       /\ req[p].UserID = req[q].UserID /\ local[p].room = local[q].room
       /\ heap[local[p].room].Users[req[p].UserID].ExpiresAt = DefaultTTL + 1

\* C9: an entry leaves a room's user map only in a step of an eviction pass
\* over that room that handles that entry and finds its ExpiresAt at or
\* before the clock; a step that advances the clock changes no room and no
\* user map.
C9_OnlySnapshotEvicts ==
    [][/\ \A i \in 1..Len(heap) : \A u \in DOMAIN heap[i].Users :
             u \notin DOMAIN heap'[i].Users =>
                \E p \in Procs :
                   /\ ScanStep(p, u)
                   /\ local[p].room = i
                   /\ heap[i].Users[u].ExpiresAt <= now
       /\ now' # now => (heap' = heap /\ Rooms' = Rooms)
      ]_vars

\* An entry whose ExpiresAt has passed is still stored after a later
\* check-in or refresh for another user of the same room has finished.
C9_Witness ==
    \E p \in Procs : \E u \in UserIDs :
       /\ pc[p] = "done"
       /\ req[p].op \in {"checkin", "update"}
       /\ resp[p].status = "OK"
       /\ u # req[p].UserID
       /\ u \in DOMAIN heap[local[p].room].Users
       /\ heap[local[p].room].Users[u].ExpiresAt < now
       /\ local[p].expiresAt > now

TTLOf(r) ==
    IF r.op = "update" /\ r.ExpiresIn > 0 THEN r.ExpiresIn ELSE DefaultTTL

\* C11 as stated: at the step that writes the entry into the room's map,
\* the stored ExpiresAt is the clock of that moment plus the call's TTL.
C11_ExpiryIsWriteTimePlusTTL ==
    [][\A p \in Procs :
          WriteStep(p) =>
             heap'[local[p].room].Users[req[p].UserID].ExpiresAt
                = now + TTLOf(req[p])
      ]_vars

\* C11 (amended): a call reads the clock once, when it has validated its
\* request and before it takes any lock, and computes that reading plus its
\* TTL; no step of any call changes the value while the call is in flight;
\* the writing step stores exactly that value, which is at most the clock
\* of the writing moment plus the TTL and is independent of the entry
\* stored before.
C11_ExpiryFromCallClock ==
    [][\A p \in Procs :
          /\ (pc[p] = "idle" /\ pc'[p] \in {"ci_lock", "up_rlock"})
                => local'[p].expiresAt = now + TTLOf(req'[p])
          /\ (pc[p] \notin {"idle", "done"} /\ req[p].op \in {"checkin", "update"})
                => local'[p].expiresAt = local[p].expiresAt
          /\ WriteStep(p) =>
                /\ heap'[local[p].room].Users[req[p].UserID].ExpiresAt
                      = local[p].expiresAt
                /\ heap'[local[p].room].Users[req[p].UserID].ExpiresAt
                      <= now + TTLOf(req[p])
      ]_vars

\* A refresh with expires_in 1 has answered OK and left its own value in
\* the entry, over a check-in's later expiry; the clock has since reached
\* or passed that value, so it is not the present clock plus the TTL.
C11_Witness ==
    \E p, q \in Procs :
       /\ p # q
       /\ served = 2
       /\ req[q].op = "checkin" /\ pc[q] = "done" /\ resp[q].status = "OK"
       /\ req[p].op = "update" /\ pc[p] = "done" /\ resp[p].status = "OK"
       /\ req[p].ExpiresIn = 1
       /\ heap[local[p].room].Users[req[p].UserID].ExpiresAt = local[p].expiresAt
       /\ local[p].expiresAt <= now

\* The locks p holds or has announced itself for.
HoldsRoomLock(p) == RoomLock.w = p \/ p \in RoomLock.readers

HoldsUserLock(p, i) == heap[i].UserLock = p

HoldsNoLock(p) ==
    /\ ~HoldsRoomLock(p)
    /\ \A i \in 1..Len(heap) : ~HoldsUserLock(p, i)

InFlight(p) == pc[p] # "idle"

\* C12: whenever some call is in flight, some call in flight can take a
\* step (never are all of them blocked on locks); and, under fair
\* scheduling, a check-in that has passed validation and a listing end up
\* answered OK holding no lock, and a refresh that has passed validation
\* ends up answered holding no lock.
C12_NoDeadlockAndCompletion ==
    /\ []((\E p \in Procs : InFlight(p))
            => \E p \in Procs : InFlight(p) /\ ENABLED Proceed(p))
    /\ \A p \in Procs :
          /\ (pc[p] \in {"ci_lock", "ls_rlock"})
                ~> (pc[p] = "done" /\ resp[p].status = "OK" /\ HoldsNoLock(p))
          /\ (pc[p] = "up_rlock")
                ~> (pc[p] = "done" /\ HoldsNoLock(p))

\* A listing holds the registry's read lock and waits for the user lock of
\* the room it visits, which a check-in holds just before it stores: one
\* call is blocked on a lock, the other can step.
C12_Witness ==
    \E p, q \in Procs :
       /\ pc[q] = "ls_ulock" /\ q \in RoomLock.readers
       /\ ~ENABLED Proceed(q)
       /\ pc[p] = "ci_write" /\ local[p].room = local[q].room
       /\ HoldsUserLock(p, local[p].room)
       /\ ENABLED Proceed(p)

\* C13 as stated: no call holds the registry's RoomLock and a room's
\* UserLock at the same time.
C13_NeverBothLocks ==
    \A p \in Procs : \A i \in 1..Len(heap) :
       ~(HoldsRoomLock(p) /\ HoldsUserLock(p, i))

\* C13 (amended): a check-in and a refresh never hold RoomLock and a room's
\* UserLock at the same time; a listing holds RoomLock for reading during
\* its whole pass, so whenever it holds a room's UserLock it also holds the
\* read lock, and it holds the UserLock of one room at a time, that of the
\* room it is visiting.
C13_OnlyListingHoldsBoth ==
    \A p \in Procs : \A i \in 1..Len(heap) :
       HoldsUserLock(p, i) =>
          /\ req[p].op \in {"checkin", "update"} => ~HoldsRoomLock(p)
          /\ req[p].op = "list" =>
                /\ p \in RoomLock.readers
                /\ pc[p] = "ls_scan"
                /\ local[p].room = i
          /\ \A j \in 1..Len(heap) : HoldsUserLock(p, j) => j = i

\* A listing is inside a room's critical section, one entry already
\* handled, and still holds the registry's read lock.
C13_Witness ==
    \E p \in Procs :
       /\ pc[p] = "ls_scan"
       /\ HoldsUserLock(p, local[p].room)
       /\ p \in RoomLock.readers
       /\ local[p].usersLeft # DOMAIN heap[local[p].room].Users

\* p cannot take its next step because of a lock that q holds (or, for the
\* registry lock, has announced itself for as writer).
WaitsFor(p, q) ==
    /\ p # q
    /\ \/ pc[p] \in {"ci_lock", "up_rlock", "ls_rlock"} /\ RoomLock.w = q
       \/ pc[p] = "ci_wait" /\ q \in RoomLock.readers
       \/ /\ pc[p] \in {"ci_ulock", "up_ulock", "ls_ulock"}
          /\ HoldsUserLock(q, local[p].room)

RECURSIVE WaitsChain(_, _, _)
WaitsChain(p, q, n) ==
    \/ WaitsFor(p, q)
    \/ n > 1 /\ \E m \in Procs : WaitsFor(p, m) /\ WaitsChain(m, q, n - 1)

\* p waits, directly or through other waiting calls, for q.
BlockedBy(p, q) == WaitsChain(p, q, NumProcs)

\* p is at EnsureRoom (check-in) or FindRoom (refresh), not yet inside.
AtRegistry(p) == pc[p] \in {"ci_lock", "ci_wait", "up_rlock"}

Blocked(p) == InFlight(p) /\ ~ENABLED Proceed(p)

InCriticalSection(p, i) ==
    /\ pc[p] \in {"ci_write", "up_lookup", "up_store", "ls_scan"}
    /\ local[p].room = i

\* C15: at most one call at a time is inside the critical section of a
\* given Room, and that call is the holder of the Room's UserLock.
C15_PerRoomMutualExclusion ==
    \A i \in 1..Len(heap) :
       /\ Cardinality({p \in Procs : InCriticalSection(p, i)}) <= 1
       /\ \A p \in Procs : InCriticalSection(p, i) <=> HoldsUserLock(p, i)

\* A refresh is inside a room's critical section, between its lookup and
\* its store, and a check-in for the same room waits at the room's lock.
C15_Witness ==
    \E p, q \in Procs : \E i \in 1..Len(heap) :
       /\ p # q
       /\ InCriticalSection(p, i) /\ pc[p] = "up_store"
       /\ pc[q] = "ci_ulock" /\ local[q].room = i
       /\ ~ENABLED CheckInUserLock(q)

\* Two calls overlap inside the critical sections of two different rooms.
C15_Overlap ==
    \E p, q \in Procs : \E i, j \in 1..Len(heap) :
       /\ p # q /\ i # j
       /\ InCriticalSection(p, i) /\ pc[p] = "up_store"
       /\ InCriticalSection(q, j) /\ pc[q] = "ci_write"

\* p is a listing between RoomLock.RLock() and RoomLock.RUnlock().
ListingReads(p) == req[p].op = "list" /\ p \in RoomLock.readers

\* The rooms a listing has reported, is visiting, or has still to visit.
ListingRooms(p) ==
    {local[p].roomsInfo[k].RoomID : k \in 1..Len(local[p].roomsInfo)}
       \cup local[p].roomsLeft
       \cup (IF pc[p] \in {"ls_ulock", "ls_scan"} THEN {local[p].roomID} ELSE {})

\* C16: while a listing holds the registry's read lock, no step changes the
\* registry's room map, no check-in is inside EnsureRoom, and the rooms the
\* listing has reported or has yet to report are exactly the rooms of the
\* registry.
C16_NoRoomCreatedDuringSnapshot ==
    [][\A p \in Procs :
          ListingReads(p) =>
             /\ Rooms' = Rooms
             /\ ListingRooms(p) = DOMAIN Rooms
             /\ \A q \in Procs : pc[q] \notin {"ci_ensure", "ci_create"}
             /\ \A q \in Procs : pc'[q] \notin {"ci_ensure", "ci_create"}
      ]_vars

\* A listing is in the middle of its pass while a check-in for a room that
\* does not exist yet has announced itself and waits for the registry.
C16_Witness ==
    \E p, q \in Procs :
       /\ ListingReads(p) /\ pc[p] = "ls_scan"
       /\ pc[q] = "ci_wait" /\ ~RoomExists(req[q].RoomID)
       /\ ~ENABLED CheckInLocked(q)

\* The answer of a listing as a set: per room, the set of users reported.
UserSets(body) ==
    {[RoomID |-> body[k].RoomID,
      UserIDs |-> {body[k].UserIDs[j] : j \in 1..Len(body[k].UserIDs)}] :
        k \in 1..Len(body)}

\* Every entry of Room i expires after the present clock value.
Settled(i) == \A u \in DOMAIN heap[i].Users : IsActive(heap[i].Users[u], now)

\* C17: with listings only and the clock standing still: an entry that is
\* absent stays absent; a pass over a room leaves only entries that expire
\* after the clock; a room holding only such entries is changed by no
\* later step, so a second listing deletes nothing; and any two listings
\* that have answered report the same set of users for every room.
C17_SecondSnapshotIdempotent ==
    [][/\ \A i \in 1..Len(heap) :
             /\ (DOMAIN heap'[i].Users) \subseteq (DOMAIN heap[i].Users)
             /\ Settled(i) => heap'[i].Users = heap[i].Users
       /\ \A p \in Procs :
             (pc[p] = "ls_scan" /\ pc'[p] = "ls_range") => Settled(local[p].room)
       /\ \A p, q \in Procs :
             (pc'[p] = "done" /\ pc'[q] = "done")
                => UserSets(resp'[p].body) = UserSets(resp'[q].body)
      ]_vars

\* Two listings have answered with the same sets: one room is reported
\* without users, another with the one user its map still holds.
C17_Witness ==
    \E p, q \in Procs : \E i, j \in 1..Len(heap) :
       /\ p # q
       /\ pc[p] = "done" /\ pc[q] = "done"
       /\ UserSets(resp[p].body) = UserSets(resp[q].body)
       /\ [RoomID |-> heap[i].Name, UserIDs |-> {}] \in UserSets(resp[p].body)
       /\ [RoomID |-> heap[j].Name, UserIDs |-> {"alice"}] \in UserSets(resp[q].body)
       /\ DOMAIN heap[j].Users = {"alice"}

\* C18: from the lookup of a refresh that found the entry to its store, the
\* entry stays in the room's map as the refresh read it; the store keeps
\* the map's key set, leaves the entry with the refresh's expiry and gives
\* up the lock in the same step; a lookup that finds no entry answers
\* UserNotFound and leaves the map alone. So a refresh never brings back an
\* entry that a listing has deleted.
C18_RefreshAtomic ==
    [][\A p \in Procs :
          LET u == req[p].UserID
              i == local[p].room
          IN  /\ pc[p] = "up_store" =>
                    /\ u \in DOMAIN heap[i].Users
                    /\ heap[i].Users[u] = local[p].user
                    /\ HoldsUserLock(p, i)
              /\ (pc[p] = "up_store" /\ pc'[p] = "done") =>
                    /\ DOMAIN heap'[i].Users = DOMAIN heap[i].Users
                    /\ heap'[i].Users[u].ExpiresAt = local[p].expiresAt
                    /\ resp'[p].status = "OK"
                    /\ heap'[i].UserLock # p
              /\ (pc[p] = "up_lookup" /\ pc'[p] = "done") =>
                    /\ u \notin DOMAIN heap[i].Users
                    /\ heap'[i].Users = heap[i].Users
                    /\ resp'[p].status = "UserNotFound"
      ]_vars

\* The race: a refresh has found an entry that has expired and is about to
\* store its new expiry, while a listing that would delete the entry waits
\* for the room's lock.
C18_Witness ==
    \E p, q \in Procs :
       /\ pc[p] = "up_store"
       /\ local[p].user.ExpiresAt <= now
       /\ local[p].expiresAt > now
       /\ pc[q] = "ls_ulock" /\ local[q].room = local[p].room
       /\ ~ENABLED ListUserLock(q)

\* C19: in the step in which a listing gives up a room's user lock, the
\* users it reports for the room are exactly the keys of the room's map,
\* each once, and that list is what the listing adds to its answer.
C19_ReportedEqualsSurvivors ==
    [][\A p \in Procs :
          (pc[p] = "ls_scan" /\ pc'[p] = "ls_range") =>
             LET i == local[p].room
                 a == local[p].activeUsers
                 info == local'[p].roomsInfo
             IN  /\ heap'[i].UserLock # p
                 /\ {a[k] : k \in 1..Len(a)} = DOMAIN heap'[i].Users
                 /\ Len(a) = Cardinality(DOMAIN heap'[i].Users)
                 /\ info[Len(info)] = RoomInfo(heap[i].Name, a)
      ]_vars

\* A listing has handled every entry of a room and is about to give up the
\* lock: it reports bob, the only key left, while alice, whom a finished
\* check-in had stored in this room, is gone from the map.
C19_Witness ==
    \E p, q \in Procs :
       /\ pc[p] = "ls_scan" /\ local[p].usersLeft = {}
       /\ local[p].activeUsers = <<"bob">>
       /\ DOMAIN heap[local[p].room].Users = {"bob"}
       /\ req[q].op = "checkin" /\ pc[q] = "done" /\ resp[q].status = "OK"
       /\ req[q].UserID = "alice" /\ local[q].room = local[p].room

\* The step is one of p's call of the given kind.
CallStep(p, op) == pc'[p] # pc[p] /\ (req[p].op = op \/ req'[p].op = op)

\* The step leaves every entry other than u0's in Room i0 as it was and
\* adds no key other than u0 in Room i0.
OthersKept(i0, u0) ==
    \A i \in 1..Len(heap) :
       /\ \A v \in DOMAIN heap[i].Users :
             (i # i0 \/ v # u0) =>
                /\ v \in DOMAIN heap'[i].Users
                /\ heap'[i].Users[v] = heap[i].Users[v]
       /\ (DOMAIN heap'[i].Users) \subseteq
             ((DOMAIN heap[i].Users) \cup (IF i = i0 THEN {u0} ELSE {}))
       /\ heap'[i].Name = heap[i].Name

\* C20: every step of a check-in for user u and room r keeps every entry
\* but u's in r, keeps the rooms there are, and adds at most the one,
\* empty, room r when the registry had none of that id; every step of a
\* refresh keeps the registry's rooms, the key set of every room's map
\* and every entry but u's in r.
C20_FrameCondition ==
    [][\A p \in Procs :
          /\ CallStep(p, "checkin") =>
                /\ OthersKept(local[p].room, req[p].UserID)
                /\ \/ Rooms' = Rooms /\ Len(heap') = Len(heap)
                   \/ /\ req[p].RoomID \notin DOMAIN Rooms
                      /\ Rooms' = MapPut(Rooms, req[p].RoomID, Len(heap) + 1)
                      /\ heap' = Append(heap, NewRoom(req[p].RoomID))
          /\ CallStep(p, "update") =>
                /\ OthersKept(local[p].room, req[p].UserID)
                /\ Rooms' = Rooms /\ Len(heap') = Len(heap)
                /\ \A i \in 1..Len(heap) :
                      DOMAIN heap'[i].Users = DOMAIN heap[i].Users
      ]_vars

\* A refresh for alice has answered OK, with its expiry in her entry, in a
\* room that also holds bob's entry with the expiry of a check-in made
\* before the clock moved.
C20_Witness ==
    \E p \in Procs :
       /\ req[p].op = "update" /\ pc[p] = "done" /\ resp[p].status = "OK"
       /\ req[p].UserID = "alice"
       /\ DOMAIN heap[local[p].room].Users = {"alice", "bob"}
       /\ heap[local[p].room].Users["alice"].ExpiresAt = local[p].expiresAt
       /\ heap[local[p].room].Users["bob"].ExpiresAt = DefaultTTL
       /\ local[p].expiresAt # DefaultTTL

====
